---- MODULE Spec2Model ----
(***************************************************************************)
(* bivalve: a process-wide logging facade (level gate + one sink) and an   *)
(* HTTP access-log middleware.  Model of src/bivalve.go.                   *)
(***************************************************************************)
EXTENDS Integers, Sequences, FiniteSets, TLC

VARIABLES
    phase,           \* "start" before package init, "ready" after, "panicked"
    env,             \* the process environment: key -> value, "" is unset
    args,            \* the command line: flag name -> value, "" is not given
    level,           \* var level int8
    terminalOutput,  \* var terminalOutput bool
    valvelog,        \* var valvelog *log.Logger: its writer and header mode
    lastConf,        \* the latest Configure call: its LogConfig, whether its file
                     \* opened, whether it repeats the call before it
    last,            \* the latest operation and what it wrote
    sw,              \* the statusWriter of the request being served
    req,             \* the request being served: handler position and what it wrote
    cfg,             \* the Configure call in progress on its goroutine
    emit             \* the emitter call in progress on another goroutine

vars == <<phase, env, args, level, terminalOutput, valvelog, lastConf, last,
          sw, req, cfg, emit>>

----------------------------------------------------------------------------
\* Program constants

debugLevel == 4
infoLevel == 2
errorLevel == 1
StatusOK == 200

configOutputKey == "BIVALVE_OUTPUT"
configLevelKey == "BIVALVE_LEVEL"
configFilenameKey == "BIVALVE_FILENAME"
configDisplayMinimalKey == "BIVALVE_DISPLAY_MINIMAL"

ErrorColor == "red"
DebugColor == "cyan"
NoColor == "none"

----------------------------------------------------------------------------
\* Bounds and input domains

MaxCalls == 2        \* calls the inner handler makes on the response writer
MaxBytes == 7        \* bytes the inner handler writes in one request
MaxConfigures == 2   \* Configure calls made while emitters run on another goroutine

Keys == {configOutputKey, configLevelKey, configFilenameKey, configDisplayMinimalKey}
Filenames == {"x.log"}
Outputs == {"stdout", "file", "both"}
Levels == {"debug", "info", "error", "verbose"}
Msgs == {"x"}
Statuses == {StatusOK, 404}
BodyLens == {2, 5}

\* type LogConfig struct
LogConfig == [Output : Outputs, Level : Levels, Filename : Filenames,
              DisplayMinimal : BOOLEAN, TerminalOutput : BOOLEAN]

----------------------------------------------------------------------------
\* Sinks: what a *log.Logger writes to

Stdout == [kind |-> "stdout", name |-> "stdout", open |-> TRUE]
Stderr == [kind |-> "stderr", name |-> "stderr", open |-> TRUE]
\* the nil *os.File that os.OpenFile returns with an error
NilFile == [kind |-> "nil", name |-> "", open |-> FALSE]
NoLogger == [out |-> NilFile, minimal |-> FALSE]
Nowhere == "nowhere"

\* os.OpenFile(name, O_APPEND|O_CREATE|O_WRONLY, 0644); ok is whether the
\* file system lets the file be opened
OpenFile(name, ok) ==
    IF ok THEN [kind |-> "file", name |-> name, open |-> TRUE] ELSE NilFile

\* f.Close(): a file handle is closed; on a nil *os.File it returns an error
Close(w) == IF w.kind = "file" THEN [w EXCEPT !.open = FALSE] ELSE w

\* The writer Configure selects
Writer(conf, ok) ==
    CASE conf.Output = "file" -> OpenFile(conf.Filename, ok)
      [] conf.Output = "stdout" -> Stdout
      [] OTHER -> Stderr

\* The threshold Configure selects
LevelOf(name) ==
    CASE name = "debug" -> debugLevel
      [] name = "error" -> errorLevel
      [] OTHER -> infoLevel

\* A faulty TerminalFlag: the flag is flipped where it should be set
TerminalFlagFlipped(conf, cur) == IF conf.TerminalOutput THEN ~cur ELSE FALSE

\* The terminalOutput flag Configure sets, given the flag's current value
TerminalFlag(conf, cur) == IF conf.TerminalOutput THEN TRUE ELSE FALSE

\* log.New(writer, "", logflags)
NewLogger(w, conf) == [out |-> w, minimal |-> conf.DisplayMinimal]

\* fmt.Sprintf(s, args...): a mismatch of verbs and arguments puts a %!
\* token in the text, it does not fail
Sprintf(s, match) == IF match THEN <<s>> ELSE <<s, "%!">>

\* fmt.Sprintf(ErrorColor, s) / fmt.Sprintf(DebugColor, s)
Colored(color, term) == IF term THEN color ELSE NoColor

\* valvelog.Output(2, s): one Write of one line on the logger's writer; a
\* write on a closed or nil file returns an error, which every caller drops
Dest(lg) == IF lg.out.open THEN lg.out.name ELSE Nowhere
Line(lg, color, text) == [hdr |-> ~lg.minimal, color |-> color, text |-> text]
NoLine == [hdr |-> FALSE, color |-> NoColor, text |-> <<>>]

\* What an operation did: fn its name, passed whether it got past its level
\* gate, dest where its line landed (Nowhere: no line written), line the
\* line it handed to the logger, syslog whether log.Println was called
Event(fn, passed, lg, color, text) ==
    [fn |-> fn, passed |-> passed,
     dest |-> IF passed THEN Dest(lg) ELSE Nowhere,
     line |-> IF passed THEN Line(lg, color, text) ELSE NoLine,
     syslog |-> FALSE, status |-> 0, bytes |-> 0]
NoEvent == [fn |-> "", passed |-> FALSE, dest |-> Nowhere, line |-> NoLine,
            syslog |-> FALSE, status |-> 0, bytes |-> 0]

----------------------------------------------------------------------------
\* Configuration from the environment

\* getEnvConfigValueOr: the variable's value (a string) when it is set and
\* not empty, else the default, which for DisplayMinimal is a bool
getEnvConfigValueOr(e, envKey, defaultValue) ==
    IF e[envKey] # "" THEN e[envKey] ELSE defaultValue

\* flag.String(name, value, usage) returns a pointer to the flag's variable,
\* which holds the default until flag.Parse runs; init dereferences it at
\* once, so what it reads is the default whatever the command line says
FlagValueAtInit(a, name, value) == value

\* The configuration init builds
InitConf(e, a) ==
    [Output |-> FlagValueAtInit(a, configOutputKey,
                    getEnvConfigValueOr(e, configOutputKey, "stdout")),
     Level |-> FlagValueAtInit(a, configLevelKey,
                    getEnvConfigValueOr(e, configLevelKey, "info")),
     Filename |-> FlagValueAtInit(a, configFilenameKey,
                    getEnvConfigValueOr(e, configFilenameKey, "bivalve.log")),
     DisplayMinimal |-> FlagValueAtInit(a, configDisplayMinimalKey,
                    getEnvConfigValueOr(e, configDisplayMinimalKey, FALSE)),
     TerminalOutput |-> FALSE]

\* .(bool) on the value getEnvConfigValueOr returns: a string when the
\* variable is set, and then the type assertion panics
AssertBoolPanics(e) == e[configDisplayMinimalKey] # ""

----------------------------------------------------------------------------
\* State before package initialisation

EnvValues ==
    {e \in [Keys -> {"", "debug", "file", "x.log", "true"}] :
        /\ e[configOutputKey] \in {"", "file"}
        /\ e[configLevelKey] \in {"", "debug"}
        /\ e[configFilenameKey] \in {"", "x.log"}
        /\ e[configDisplayMinimalKey] \in {"", "true"}}

ArgValues ==
    {a \in [Keys -> {"", "error", "both", "true"}] :
        /\ a[configOutputKey] \in {"", "both"}
        /\ a[configLevelKey] \in {"", "error"}
        /\ a[configFilenameKey] \in {""}
        /\ a[configDisplayMinimalKey] \in {"", "true"}}

NoEnv == [k \in Keys |-> ""]
NoSw == [status |-> 0, length |-> 0]
NoReq == [pc |-> "idle", invoked |-> 0, first |-> 0, sum |-> 0, calls |-> 0]
NoCfg == [pc |-> "idle", conf |-> InitConf(NoEnv, NoEnv), ok |-> TRUE,
          w |-> NilFile, todo |-> {}, old |-> {}, n |-> 0]
NoEmit == [pc |-> "idle", fn |-> "", passed |-> FALSE, level |-> 0, term |-> FALSE,
           lg |-> NoLogger, during |-> {}]

Start(e, a) ==
    /\ phase = "start"
    /\ env = e
    /\ args = a
    /\ level = 0
    /\ terminalOutput = FALSE
    /\ valvelog = NoLogger
    /\ lastConf = [conf |-> InitConf(NoEnv, NoEnv), opened |-> TRUE, again |-> FALSE]
    /\ last = NoEvent
    /\ sw = NoSw
    /\ req = NoReq
    /\ cfg = NoCfg
    /\ emit = NoEmit

\* A process started with an empty environment and no flags
Init == Start(NoEnv, NoEnv)

\* A process started with any environment and command line
InitEnv == \E e \in EnvValues, a \in ArgValues : Start(e, a)

\* No Configure call and no emitter call is part-way on another goroutine
Quiet == cfg.pc = "idle" /\ emit.pc = "idle"

----------------------------------------------------------------------------
\* Configure

\* defer f.Close(), registered in the "file" case only
DeferredClose(conf, w) == IF conf.Output = "file" THEN Close(w) ELSE w

\* The Debugf call that ends Configure, under the configuration just set
ConfigureEvent(conf, ok, term) ==
    [Event("Configure", LevelOf(conf.Level) >= debugLevel,
           NewLogger(Writer(conf, ok), conf),
           Colored(DebugColor, term),
           Sprintf("Log Config set to : %+v", TRUE))
       EXCEPT !.syslog = (conf.Output = "file" /\ ~ok)]

\* The body of Configure, start to return
ConfigureBody(conf, ok) ==
    /\ level' = LevelOf(conf.Level)
    /\ terminalOutput' = TerminalFlag(conf, terminalOutput)
    /\ valvelog' = NewLogger(DeferredClose(conf, Writer(conf, ok)), conf)
    /\ last' = ConfigureEvent(conf, ok, TerminalFlag(conf, terminalOutput))
    /\ lastConf' = [conf |-> conf, opened |-> ok,
                    again |-> phase = "ready" /\ lastConf.conf = conf /\ lastConf.opened = ok]

Configure(conf, ok) ==
    /\ phase = "ready"
    /\ Quiet
    /\ ConfigureBody(conf, ok)
    /\ UNCHANGED <<phase, env, args, sw, req, cfg, emit>>

\* func init()
PkgInit ==
    /\ phase = "start"
    /\ IF AssertBoolPanics(env)
         THEN /\ phase' = "panicked"
              /\ UNCHANGED <<level, terminalOutput, valvelog, lastConf, last>>
         ELSE /\ phase' = "ready"
              /\ \E ok \in BOOLEAN :
                    /\ (InitConf(env, args).Output # "file" => ok)
                    /\ ConfigureBody(InitConf(env, args), ok)
    /\ UNCHANGED <<env, args, sw, req, cfg, emit>>

----------------------------------------------------------------------------
\* Emitters

Emitter(ev) ==
    /\ phase = "ready"
    /\ Quiet
    /\ last' = ev
    /\ UNCHANGED <<phase, env, args, level, terminalOutput, valvelog, lastConf,
                   sw, req, cfg, emit>>

Info(s) == Emitter(Event("Info", level >= infoLevel, valvelog, NoColor, <<s>>))

Infof(s, match) ==
    Emitter(Event("Infof", level >= infoLevel, valvelog, NoColor, Sprintf(s, match)))

Debug(s) ==
    Emitter(Event("Debug", level >= debugLevel, valvelog,
                  Colored(DebugColor, terminalOutput), <<s>>))

Debugf(s, match) ==
    Emitter(Event("Debugf", level >= debugLevel, valvelog,
                  Colored(DebugColor, terminalOutput), Sprintf(s, match)))

Error(s) ==
    Emitter(Event("Error", TRUE, valvelog, Colored(ErrorColor, terminalOutput), <<s>>))

Errorf(s, match) ==
    Emitter(Event("Errorf", TRUE, valvelog,
                  Colored(ErrorColor, terminalOutput), Sprintf(s, match)))

----------------------------------------------------------------------------
\* The access-log middleware

\* func (w *statusWriter) WriteHeader(status int)
swWriteHeader(w, status) == [w EXCEPT !.status = status]

\* A faulty swWrite: it counts the bytes asked for, not the bytes written
swWriteRequested(w, b, n) ==
    [status |-> IF w.status = 0 THEN StatusOK ELSE w.status,
     length |-> w.length + b]

\* func (w *statusWriter) Write(b []byte): b is len(b), n what the
\* underlying writer reports written
swWrite(w, b, n) ==
    [status |-> IF w.status = 0 THEN StatusOK ELSE w.status,
     length |-> w.length + n]

\* ServeHTTP up to and including the call of the inner handler
ServeBegin ==
    /\ phase = "ready"
    /\ Quiet
    /\ req.pc = "idle"
    /\ sw' = NoSw
    /\ req' = [pc |-> "handler", invoked |-> 1, first |-> 0, sum |-> 0, calls |-> 0]
    /\ last' = [NoEvent EXCEPT !.fn = "ServeHTTP.handler"]
    /\ UNCHANGED <<phase, env, args, level, terminalOutput, valvelog, lastConf, cfg, emit>>

\* The inner handler sets the status
WriteHeader(status) ==
    /\ req.pc = "handler"
    /\ Quiet
    /\ req.calls < MaxCalls
    /\ sw' = swWriteHeader(sw, status)
    /\ req' = [req EXCEPT !.first = IF @ = 0 THEN status ELSE @, !.calls = @ + 1]
    /\ last' = [NoEvent EXCEPT !.fn = "WriteHeader"]
    /\ UNCHANGED <<phase, env, args, level, terminalOutput, valvelog, lastConf, cfg, emit>>

\* The inner handler writes b body bytes, of which the underlying writer takes n
Write(b, n) ==
    /\ req.pc = "handler"
    /\ Quiet
    /\ req.calls < MaxCalls
    /\ req.sum + b <= MaxBytes
    /\ sw' = swWrite(sw, b, n)
    /\ req' = [req EXCEPT !.first = IF @ = 0 THEN StatusOK ELSE @,
                          !.sum = @ + n, !.calls = @ + 1]
    /\ last' = [NoEvent EXCEPT !.fn = "Write"]
    /\ UNCHANGED <<phase, env, args, level, terminalOutput, valvelog, lastConf, cfg, emit>>

\* type ApacheLogRecord: the fields the interceptor supplies
ApacheLogRecord(w) == [status |-> w.status, responseBytes |-> w.length]

\* ServeHTTP from the inner handler's return: the record, then Infof
ServeEnd ==
    /\ req.pc = "handler"
    /\ Quiet
    /\ last' = [Event("ServeHTTP", level >= infoLevel, valvelog, NoColor,
                      Sprintf("%s - - [%s] \"%s %d %d\" %f\n", TRUE))
                  EXCEPT !.status = ApacheLogRecord(sw).status,
                         !.bytes = ApacheLogRecord(sw).responseBytes]
    /\ sw' = NoSw
    /\ req' = NoReq
    /\ UNCHANGED <<phase, env, args, level, terminalOutput, valvelog, lastConf, cfg, emit>>

----------------------------------------------------------------------------
\* The program on one goroutine, from an empty environment

Next ==
    \/ PkgInit
    \/ \E conf \in LogConfig, ok \in BOOLEAN :
          (conf.Output # "file" => ok) /\ Configure(conf, ok)
    \/ \E s \in Msgs : Info(s)
    \/ \E s \in Msgs, match \in BOOLEAN : Infof(s, match)
    \/ \E s \in Msgs : Debug(s)
    \/ \E s \in Msgs, match \in BOOLEAN : Debugf(s, match)
    \/ \E s \in Msgs : Error(s)
    \/ \E s \in Msgs, match \in BOOLEAN : Errorf(s, match)
    \/ ServeBegin
    \/ \E status \in Statuses : WriteHeader(status)
    \/ \E b \in BodyLens : \E n \in 0..b : Write(b, n)
    \/ ServeEnd

Spec == Init /\ [][Next]_vars

\* Package initialisation under any environment, then Configure and emitters
NextInit ==
    \/ PkgInit
    \/ \E conf \in LogConfig, ok \in BOOLEAN :
          (conf.Output # "file" => ok) /\ Configure(conf, ok)
    \/ \E s \in Msgs : Info(s)
    \/ \E s \in Msgs, match \in BOOLEAN : Infof(s, match)
    \/ \E s \in Msgs : Debug(s)
    \/ \E s \in Msgs, match \in BOOLEAN : Debugf(s, match)
    \/ \E s \in Msgs : Error(s)
    \/ \E s \in Msgs, match \in BOOLEAN : Errorf(s, match)

SpecInit == InitEnv /\ [][NextInit]_vars

----------------------------------------------------------------------------
\* Configure on one goroutine while an emitter runs on another.  Nothing
\* orders the accesses to level, terminalOutput and valvelog (plain package
\* variables, no lock, no atomic), so each is a step of its own, and the
\* three stores of Configure may become visible in any order.

\* The configurations Configure is called with here
ConcConfigs == {c \in LogConfig : ~c.DisplayMinimal /\ c.Level \in {"debug", "error"}}

\* A whole configuration: threshold, colour flag, logger (which writer, which
\* header mode)
LoggerId(lg) == [kind |-> lg.out.kind, name |-> lg.out.name, minimal |-> lg.minimal]
Snapshot(lv, term, lg) == [level |-> lv, term |-> term, lg |-> LoggerId(lg)]
Current == Snapshot(level, terminalOutput, valvelog)
Target(conf, ok) ==
    Snapshot(LevelOf(conf.Level), TerminalFlag(conf, terminalOutput),
             NewLogger(Writer(conf, ok), conf))

\* Configure, lines 105-117: the writer is chosen, an open error is logged
CStart(conf, ok) ==
    /\ phase = "ready"
    /\ cfg.pc = "idle"
    /\ cfg.n < MaxConfigures
    /\ cfg' = [pc |-> "set", conf |-> conf, ok |-> ok, w |-> Writer(conf, ok),
               todo |-> {"level", "terminalOutput", "valvelog"}, old |-> {Current},
               n |-> cfg.n + 1]
    /\ emit' = IF emit.pc \in {"idle", "done"} THEN emit
               ELSE [emit EXCEPT !.during = @ \cup {Target(conf, ok)}]
    /\ last' = [NoEvent EXCEPT !.fn = "Configure.open",
                               !.syslog = (conf.Output = "file" /\ ~ok)]
    /\ UNCHANGED <<phase, env, args, level, terminalOutput, valvelog, lastConf, sw, req>>

\* Configure, lines 119-129: the store to level
CLevel ==
    /\ cfg.pc = "set"
    /\ "level" \in cfg.todo
    /\ level' = LevelOf(cfg.conf.Level)
    /\ cfg' = [cfg EXCEPT !.todo = @ \ {"level"}]
    /\ UNCHANGED <<phase, env, args, terminalOutput, valvelog, lastConf, last, sw, req, emit>>

\* Configure, lines 131-135: the store to terminalOutput
CTerm ==
    /\ cfg.pc = "set"
    /\ "terminalOutput" \in cfg.todo
    /\ terminalOutput' = TerminalFlag(cfg.conf, terminalOutput)
    /\ cfg' = [cfg EXCEPT !.todo = @ \ {"terminalOutput"}]
    /\ UNCHANGED <<phase, env, args, level, valvelog, lastConf, last, sw, req, emit>>

\* Configure, lines 137-142: the store to valvelog
CLogger ==
    /\ cfg.pc = "set"
    /\ "valvelog" \in cfg.todo
    /\ valvelog' = NewLogger(cfg.w, cfg.conf)
    /\ cfg' = [cfg EXCEPT !.todo = @ \ {"valvelog"}]
    /\ UNCHANGED <<phase, env, args, level, terminalOutput, lastConf, last, sw, req, emit>>

\* Configure, line 143: Debugf, on Configure's own goroutine
CDebugf ==
    /\ cfg.pc = "set"
    /\ cfg.todo = {}
    /\ last' = Event("Configure", level >= debugLevel, valvelog,
                     Colored(DebugColor, terminalOutput),
                     Sprintf("Log Config set to : %+v", TRUE))
    /\ cfg' = [cfg EXCEPT !.pc = "close"]
    /\ UNCHANGED <<phase, env, args, level, terminalOutput, valvelog, lastConf, sw, req, emit>>

\* Configure returns: the deferred f.Close() runs
CClose ==
    /\ cfg.pc = "close"
    /\ valvelog' = [valvelog EXCEPT !.out = DeferredClose(cfg.conf, @)]
    /\ lastConf' = [conf |-> cfg.conf, opened |-> cfg.ok,
                    again |-> lastConf.conf = cfg.conf /\ lastConf.opened = cfg.ok]
    /\ cfg' = [NoCfg EXCEPT !.n = cfg.n]
    /\ UNCHANGED <<phase, env, args, level, terminalOutput, last, sw, req, emit>>

\* The configurations an emitter call that starts now may take as the one in
\* force: the current one, or, with a Configure call under way, the one it
\* replaces and the one it sets
InForce ==
    IF cfg.pc = "idle" THEN {Current} ELSE cfg.old \cup {Target(cfg.conf, cfg.ok)}

\* An emitter is called and makes its first read: Info and Debug read level
\* (the gate), Error reads terminalOutput
ECall(fn) ==
    /\ phase = "ready"
    /\ emit.pc \in {"idle", "done"}
    /\ LET passed == CASE fn = "Info" -> level >= infoLevel
                       [] fn = "Debug" -> level >= debugLevel
                       [] OTHER -> TRUE
       IN /\ emit' = [pc |-> IF ~passed THEN "done"
                             ELSE IF fn = "Debug" THEN "color" ELSE "output",
                      fn |-> fn, passed |-> passed,
                      level |-> IF fn = "Error" THEN 0 ELSE level,
                      term |-> IF fn = "Error" THEN terminalOutput ELSE FALSE,
                      lg |-> NoLogger, during |-> InForce]
          /\ last' = IF passed THEN last ELSE Event(fn, FALSE, valvelog, NoColor, <<>>)
    /\ UNCHANGED <<phase, env, args, level, terminalOutput, valvelog, lastConf, sw, req, cfg>>

\* Debug reads terminalOutput
EColor ==
    /\ emit.pc = "color"
    /\ emit' = [emit EXCEPT !.pc = "output", !.term = terminalOutput]
    /\ UNCHANGED <<phase, env, args, level, terminalOutput, valvelog, lastConf, last,
                   sw, req, cfg>>

\* The emitter reads valvelog and calls its Output
EOutput ==
    /\ emit.pc = "output"
    /\ emit' = [emit EXCEPT !.pc = "done", !.lg = valvelog]
    /\ last' = Event(emit.fn, TRUE, valvelog,
                     CASE emit.fn = "Debug" -> Colored(DebugColor, emit.term)
                       [] emit.fn = "Error" -> Colored(ErrorColor, emit.term)
                       [] OTHER -> NoColor,
                     <<"x">>)
    /\ UNCHANGED <<phase, env, args, level, terminalOutput, valvelog, lastConf,
                   sw, req, cfg>>

NextConc ==
    \/ PkgInit
    \/ \E conf \in ConcConfigs, ok \in BOOLEAN :
          (conf.Output # "file" => ok) /\ CStart(conf, ok)
    \/ CLevel
    \/ CTerm
    \/ CLogger
    \/ CDebugf
    \/ CClose
    \/ \E fn \in {"Info", "Debug", "Error"} : ECall(fn)
    \/ EColor
    \/ EOutput

SpecConc == Init /\ [][NextConc]_vars

----------------------------------------------------------------------------
\* Properties

Emitters == {"Info", "Infof", "Debug", "Debugf", "Error", "Errorf"}

\* The number of lines an operation put on a sink
Lines(ev) == IF ev.dest = Nowhere THEN 0 ELSE 1

\* The level gate alone: an emitter hands a line to the logger iff its
\* severity is within the threshold, and Error always does
GateDecides ==
    /\ level \in {errorLevel, infoLevel, debugLevel} \/ phase # "ready"
    /\ last.fn \in {"Debug", "Debugf"} => (last.passed <=> level >= 4)
    /\ last.fn \in {"Info", "Infof"} => (last.passed <=> level >= 2)
    /\ last.fn \in {"Error", "Errorf"} => last.passed

\* C1: under every threshold Configure can set, Debug/Debugf write a line
\* iff the threshold is >= 4, Info/Infof iff it is >= 2, Error/Errorf
\* always; an emitting call writes exactly one line, a suppressed one none
LevelGateWritesLine ==
    /\ last.fn \in {"Debug", "Debugf"} => Lines(last) = (IF level >= 4 THEN 1 ELSE 0)
    /\ last.fn \in {"Info", "Infof"} => Lines(last) = (IF level >= 2 THEN 1 ELSE 0)
    /\ last.fn \in {"Error", "Errorf"} => Lines(last) = 1

\* C2: while the handler runs, and so when it returns, the interceptor holds
\* the first status value written: the first WriteHeader argument, or 200
\* when a Write came first; later WriteHeader calls do not change it
FirstStatusKept ==
    (req.pc = "handler" /\ req.first # 0) => sw.status = req.first

\* The step in which ServeHTTP, the inner handler having returned, logs
ServeEndStep == req.pc = "handler" /\ req'.pc = "idle"

\* C3: the byte count in the access-log record is the sum of the counts the
\* underlying writer returned for the request's Write calls, from 0; one
\* write of 5 bytes with no explicit status gives status 200 and 5 bytes
ByteCountIsSum ==
    [][ServeEndStep =>
          /\ last'.fn = "ServeHTTP"
          /\ last'.bytes = req.sum
          /\ (req.calls = 1 /\ req.sum = 5 /\ req.first = StatusOK)
                => (last'.status = 200 /\ last'.bytes = 5)]_vars

\* C3 witness: a request whose handler set no status and had 5 bytes taken
\* by the underlying writer has been logged with status 200 and 5 bytes
HelloLogged ==
    /\ last.fn = "ServeHTTP"
    /\ last.status = StatusOK
    /\ last.bytes = 5

\* C4: the inner handler is invoked exactly once per request, and after it
\* returns exactly one access-log line is emitted under threshold info or
\* debug and none under error; never before the handler has returned
OneAccessLinePerRequest ==
    /\ req.pc = "handler" => (req.invoked = 1 /\ last.fn # "ServeHTTP")
    /\ last.fn = "ServeHTTP" =>
          Lines(last) = (IF level \in {infoLevel, debugLevel} THEN 1 ELSE 0)

\* The value the stated precedence gives a field: flag, environment, default
Resolved(e, a, key, default) ==
    IF a[key] # "" THEN a[key] ELSE IF e[key] # "" THEN e[key] ELSE default

\* C5: at process start each field comes from the flag of its name when
\* given, else from the environment variable when set, else from the default
FlagThenEnvThenDefault ==
    [][phase = "start" =>
          /\ phase' = "ready"
          /\ lastConf'.conf.Output = Resolved(env, args, configOutputKey, "stdout")
          /\ lastConf'.conf.Level = Resolved(env, args, configLevelKey, "info")
          /\ lastConf'.conf.Filename = Resolved(env, args, configFilenameKey, "bivalve.log")
          /\ lastConf'.conf.DisplayMinimal =
                (Resolved(env, args, configDisplayMinimalKey, "false") = "true")
          /\ level' = LevelOf(Resolved(env, args, configLevelKey, "info"))]_vars

\* The part of C5 about the environment alone: BIVALVE_LEVEL=debug, with
\* BIVALVE_DISPLAY_MINIMAL unset, gives threshold 4
EnvLevelDebug ==
    [][(phase = "start" /\ env[configLevelKey] = "debug"
            /\ env[configDisplayMinimalKey] = "")
          => level' = 4]_vars

\* The destination the stated rule selects for a configuration
Selected(lc) ==
    CASE lc.conf.Output = "stdout" -> "stdout"
      [] lc.conf.Output = "file" -> lc.conf.Filename
      [] OTHER -> "stderr"

\* C6: after Configure the active sink is the one conf.Output selects
\* (stdout; the file conf.Filename when it opened; stderr otherwise) and
\* every later emitter call that passes the gate delivers its line there
LinesReachSelectedSink ==
    (last.fn \in Emitters /\ last.passed
        /\ (lastConf.conf.Output = "file" => lastConf.opened))
      => last.dest = Selected(lastConf)

\* C7: no sequence of package initialisation, Configure calls and emitter
\* calls aborts the application
NeverAborts == phase # "panicked"

\* What each emitter would write under a configuration
WouldWrite(lv, term, lg) ==
    [fn \in Emitters |->
        CASE fn \in {"Info", "Infof"} -> Event(fn, lv >= infoLevel, lg, NoColor, <<"x">>)
          [] fn \in {"Debug", "Debugf"} ->
                Event(fn, lv >= debugLevel, lg, Colored(DebugColor, term), <<"x">>)
          [] OTHER -> Event(fn, TRUE, lg, Colored(ErrorColor, term), <<"x">>)]

\* C8: a Configure call that repeats the call before it (same LogConfig,
\* same outcome of the open) leaves the threshold, the terminal-output flag,
\* the header mode and the sink as they were, and so every emitter would
\* write the same line to the same place as before it
ConfigureIdempotent ==
    [][(phase = "ready" /\ last'.fn = "Configure" /\ lastConf'.again) =>
          /\ level' = level
          /\ terminalOutput' = terminalOutput
          /\ valvelog' = valvelog
          /\ WouldWrite(level', terminalOutput', valvelog')
                = WouldWrite(level, terminalOutput, valvelog)]_vars

\* C8 witness: a debug-level, coloured configuration has just been applied a
\* second time
ConfiguredTwice ==
    /\ last.fn = "Configure"
    /\ lastConf.again
    /\ lastConf.conf.Level = "debug"
    /\ lastConf.conf.TerminalOutput
    /\ lastConf.conf.DisplayMinimal

\* C9: when the open of a "file" configuration fails, the error goes to the
\* standard logger, Configure returns, and the active sink is the one that
\* was active before the call, so later emissions reach a working sink
FailedOpenKeepsSink ==
    [][(phase = "ready" /\ last'.fn = "Configure" /\ last'.syslog) =>
          /\ valvelog'.out = valvelog.out
          /\ phase' = "ready"]_vars

\* The part of C9 that is about the error path alone: a failed open is
\* logged through the standard logger and Configure returns
FailedOpenIsLogged ==
    (last.fn = "Configure" /\ lastConf.conf.Output = "file" /\ ~lastConf.opened)
        => (last.syslog /\ phase = "ready")

\* What the finished emitter call read agrees with configuration c
Observed(c) ==
    /\ emit.fn \in {"Info", "Debug"} => emit.level = c.level
    /\ emit.fn \in {"Debug", "Error"} /\ emit.passed => emit.term = c.term
    /\ emit.passed => LoggerId(emit.lg) = c.lg

\* C10: an emitter call never observes a partially updated configuration:
\* what it read of threshold, terminal-output flag and logger all belong to
\* one configuration that was in force at some moment of the call
ConfigureIsAtomic ==
    emit.pc = "done" => \E c \in emit.during : Observed(c)

====
